---- MODULE Spec2Model ----
(***************************************************************************)
(* Model of viirs_upload_cloud_func/main.py: the FIRMS active-fire         *)
(* pipeline (fetch per product, recency filter, DBSCAN clustering,         *)
(* corroboration filter, convex-hull polygons, upload of one row).         *)
(*                                                                         *)
(* Abstractions of the data domain (not of the control flow):              *)
(*  - coordinates are integers in units of 0.007 degrees, so that the      *)
(*    default eps = 0.01 degrees admits exactly dx^2 + dy^2 <= 2;          *)
(*  - acq_date is a day number; a timestamp is minutes since day 0;        *)
(*  - acq_time is the integer HHMM value pandas reads from the CSV.        *)
(***************************************************************************)
EXTENDS Integers, Sequences, FiniteSets

VARIABLES
    \* one invocation of FIRMS_GEOJSON_UPDATE
    pc, request, gdfs, combined_gdf, filtered_combined_clusters,
    result, sink, error, calls,
    \* filter_by_datetime applied to a batch on its own
    batch, days, recent, rstep,
    \* cluster_fires / filter_clusters_with_product_confidence /
    \* create_cluster_polygons applied to a point set on their own
    points, params, clustered, kept, polygons, cstep

pipeVars == <<pc, request, gdfs, combined_gdf, filtered_combined_clusters,
              result, sink, error, calls>>
recVars  == <<batch, days, recent, rstep>>
corVars  == <<points, params, clustered, kept, polygons, cstep>>
vars     == <<pipeVars, recVars, corVars>>

----------------------------------------------------------------------------
(* Bounds of the explored input space *)

\* total number of detections the remote returns over one invocation
MaxPoints == 3
\* length of a batch given to filter_by_datetime on its own
MaxBatch == 3
\* number of points given to the clustering / corroboration functions
MaxClusterInput == 3
\* acquisition days are 1..MaxDay
MaxDay == 2
\* lookback (days=) values tried for filter_by_datetime on its own: 0..MaxLookback
MaxLookback == 1
\* thresholds tried for the corroboration filter: 0..MaxThreshold
MaxThreshold == 2

(* Program constants *)
DefaultDays == 1                 \* filter_by_datetime(gdf, days=1)
DefaultMinSamples == 1           \* cluster_fires(gdf, eps=0.01, min_samples=1)
EpsSq == 2                       \* eps = 0.01 deg, squared, in (0.007 deg)^2 units
DefaultMinClusterSize == 25      \* request_json.get('min_cluster_size', 25)
DefaultRequiredHighConfidence == 1
ZFillWidth == 4                  \* .str.zfill(4)
NoiseLabel == -1                 \* DBSCAN's label of a point in no cluster
MinutesPerDay == 1440

DefaultProducts == <<"VIIRS_SNPP_NRT", "VIIRS_NOAA21_NRT", "VIIRS_NOAA20_NRT">>
DefaultBbox == "world"

----------------------------------------------------------------------------
(* Sequence helpers *)

RECURSIVE SeqsUpTo(_, _)
SeqsUpTo(S, n) ==
    IF n = 0 THEN {<<>>}
    ELSE LET shorter == SeqsUpTo(S, n - 1)
         IN  shorter \cup {Append(s, x) : s \in {t \in shorter : Len(t) = n - 1}, x \in S}

RECURSIVE Concat(_)
Concat(ss) == IF ss = <<>> THEN <<>> ELSE Head(ss) \o Concat(Tail(ss))

RECURSIVE SumLen(_)
SumLen(ss) == IF ss = <<>> THEN 0 ELSE Len(Head(ss)) + SumLen(Tail(ss))

\* a record with one more (or one replaced) column
With(r, f, v) == [g \in DOMAIN r \cup {f} |-> IF g = f THEN v ELSE r[g]]

----------------------------------------------------------------------------
(* filter_by_datetime, lines 49-78 *)

\* str(n): the decimal digits of a natural number
RECURSIVE Str(_)
Str(n) == IF n < 10 THEN <<n>> ELSE Append(Str(n \div 10), n % 10)

\* str.zfill(width): zeros on the left up to the width
RECURSIVE ZFill(_, _)
ZFill(s, width) == IF Len(s) >= width THEN s ELSE ZFill(<<0>> \o s, width)

\* the number a digit string denotes
RECURSIVE ParseInt(_)
ParseInt(s) ==
    IF s = <<>> THEN 0 ELSE 10 * ParseInt(SubSeq(s, 1, Len(s) - 1)) + s[Len(s)]

\* pd.to_datetime(acq_date + ' ' + hour + ':' + minute), in minutes
to_datetime(acq_date, hour, minute) ==
    acq_date * MinutesPerDay + ParseInt(hour) * 60 + ParseInt(minute)

\* lines 57-64 for one row: the columns acq_time, hour, minute, datetime
AddDatetime(row) ==
    LET acq_time == ZFill(Str(row.acq_time), ZFillWidth)
        hour     == SubSeq(acq_time, 1, 2)
        minute   == SubSeq(acq_time, 3, Len(acq_time))
    IN  [longitude |-> row.longitude, latitude |-> row.latitude,
         confidence |-> row.confidence, geometry |-> row.geometry,
         acq_date |-> row.acq_date, product |-> row.product,
         acq_time |-> acq_time, hour |-> hour, minute |-> minute,
         datetime |-> to_datetime(row.acq_date, hour, minute)]

\* gdf.sort_values('datetime'): insertion of each row after the rows not later
RECURSIVE InsertByDatetime(_, _)
InsertByDatetime(sorted, row) ==
    IF sorted = <<>> THEN <<row>>
    ELSE IF Head(sorted).datetime <= row.datetime
         THEN <<Head(sorted)>> \o InsertByDatetime(Tail(sorted), row)
         ELSE <<row>> \o sorted

RECURSIVE sort_values(_)
sort_values(gdf) ==
    IF gdf = <<>> THEN <<>>
    ELSE InsertByDatetime(sort_values(SubSeq(gdf, 1, Len(gdf) - 1)), gdf[Len(gdf)])

\* gdf['datetime'].max(); only used on a non-empty frame
MaxDatetime(gdf) ==
    CHOOSE t \in {gdf[i].datetime : i \in 1..Len(gdf)} :
        \A i \in 1..Len(gdf) : gdf[i].datetime <= t

\* InWindow with the faulty test >: the window's lower end is left out
InWindowStrict(t, latest_time, ndays) == t > latest_time - ndays * MinutesPerDay

\* line 73 and the test of line 76
InWindow(t, latest_time, ndays) == t >= latest_time - ndays * MinutesPerDay

\* lines 57-64 assign the columns on the frame the caller passed: what the
\* argument holds after the call (line 67 rebinds the name to a sorted copy)
filter_by_datetime_argument(gdf) == [i \in 1..Len(gdf) |-> AddDatetime(gdf[i])]

\* The returned frame. On an empty frame max() is NaT and the comparison of
\* line 76 selects nothing: the result is the empty frame, without an exception.
filter_by_datetime(gdf, ndays) ==
    LET sorted == sort_values(filter_by_datetime_argument(gdf))
    IN  IF sorted = <<>> THEN <<>>
        ELSE LET latest_time == MaxDatetime(sorted)
             IN  SelectSeq(sorted, LAMBDA r : InWindow(r.datetime, latest_time, ndays))

----------------------------------------------------------------------------
(* cluster_fires, lines 81-97: DBSCAN(eps, min_samples).fit(coords).labels_ *)

DistSq(a, b) ==
    (a.longitude - b.longitude) * (a.longitude - b.longitude)
  + (a.latitude - b.latitude) * (a.latitude - b.latitude)

\* the eps-neighbourhood of row i (it holds i itself)
Neighbours(gdf, epsSq, i) == {j \in 1..Len(gdf) : DistSq(gdf[i], gdf[j]) <= epsSq}

IsCore(gdf, epsSq, min_samples, i) ==
    Cardinality(Neighbours(gdf, epsSq, i)) >= min_samples

\* what the depth-first walk from a core point reaches: the neighbourhoods of
\* the core points met on the way
RECURSIVE Expand(_, _, _, _)
Expand(gdf, epsSq, min_samples, members) ==
    LET more == members \cup UNION {Neighbours(gdf, epsSq, i) :
                    i \in {m \in members : IsCore(gdf, epsSq, min_samples, m)}}
    IN  IF more = members THEN members ELSE Expand(gdf, epsSq, min_samples, more)

\* the labelling loop: rows in index order, a new label for each unlabelled
\* core point, given to every still unlabelled row its walk reaches
RECURSIVE DbscanLabels(_, _, _, _, _, _)
DbscanLabels(gdf, epsSq, min_samples, i, labels, label_num) ==
    IF i > Len(gdf) THEN labels
    ELSE IF labels[i] # NoiseLabel \/ ~IsCore(gdf, epsSq, min_samples, i)
         THEN DbscanLabels(gdf, epsSq, min_samples, i + 1, labels, label_num)
         ELSE LET reached == {j \in Expand(gdf, epsSq, min_samples, {i}) :
                                 labels[j] = NoiseLabel}
              IN  DbscanLabels(gdf, epsSq, min_samples, i + 1,
                      [j \in 1..Len(gdf) |->
                          IF j \in reached THEN label_num ELSE labels[j]],
                      label_num + 1)

\* the frame with its 'label' column (line 95): the column is set on the
\* frame passed in, which is also what is returned; the frame is not empty
cluster_fires(gdf, epsSq, min_samples) ==
    LET labels == DbscanLabels(gdf, epsSq, min_samples, 1,
                               [i \in 1..Len(gdf) |-> NoiseLabel], 0)
    IN  [i \in 1..Len(gdf) |-> With(gdf[i], "label", labels[i])]

----------------------------------------------------------------------------
(* filter_clusters_with_product_confidence, lines 99-129 *)

Labels(gdf) == {gdf[i].label : i \in 1..Len(gdf)}

\* gdf['label'].value_counts(), line 111
cluster_counts(gdf) ==
    [l \in Labels(gdf) |-> Cardinality({i \in 1..Len(gdf) : gdf[i].label = l})]

\* line 114
valid_clusters_by_size(gdf, min_size) ==
    LET counts == cluster_counts(gdf)
    IN  {l \in DOMAIN counts : counts[l] >= min_size}

\* line 117
high_confidence_gdf(gdf) == SelectSeq(gdf, LAMBDA r : r.confidence = "h")

\* high_confidence_gdf.groupby('label')['product'].nunique(), line 120: only
\* the labels that have a high-confidence row are in the index
product_nunique(gdf) ==
    LET hc == high_confidence_gdf(gdf)
    IN  [l \in Labels(hc) |->
            Cardinality({hc[i].product : i \in {j \in 1..Len(hc) : hc[j].label = l}})]

\* EnoughProducts with the faulty test ==: exactly the required number
ExactlyProducts(n, required) == n = required

\* the test of line 121
EnoughProducts(n, required) == n >= required

\* line 121
valid_clusters_by_product_confidence(gdf, required_high_confidence_per_product) ==
    LET nunique == product_nunique(gdf)
    IN  {l \in DOMAIN nunique :
            EnoughProducts(nunique[l], required_high_confidence_per_product)}

\* valid_clusters with | for &: either criterion is enough
valid_clusters_either(bySize, byProductConfidence) == bySize \cup byProductConfidence

\* line 124
valid_clusters(bySize, byProductConfidence) == bySize \cap byProductConfidence

\* the whole function: line 127 keeps the rows of the valid labels, in order
filter_clusters_with_product_confidence(gdf, min_size, required) ==
    LET valid == valid_clusters(
                    valid_clusters_by_size(gdf, min_size),
                    valid_clusters_by_product_confidence(gdf, required))
    IN  SelectSeq(gdf, LAMBDA r : r.label \in valid)

----------------------------------------------------------------------------
(* create_cluster_polygons, lines 131-152 *)

Cross(o, a, b) == (a[1] - o[1]) * (b[2] - o[2]) - (a[2] - o[2]) * (b[1] - o[1])

Between(x, u, v) == (u <= x /\ x <= v) \/ (v <= x /\ x <= u)

OnSegment(p, a, b) ==
    Cross(a, b, p) = 0 /\ Between(p[1], a[1], b[1]) /\ Between(p[2], a[2], b[2])

InTriangle(p, a, b, c) ==
    LET d1 == Cross(a, b, p)
        d2 == Cross(b, c, p)
        d3 == Cross(c, a, p)
    IN  (d1 >= 0 /\ d2 >= 0 /\ d3 >= 0) \/ (d1 <= 0 /\ d2 <= 0 /\ d3 <= 0)

\* MultiPoint(pts).convex_hull, as the set of its vertices: the points that
\* lie on no segment and in no triangle of the other points
convex_hull(pts) ==
    LET vertices ==
            {p \in pts :
                LET others == pts \ {p}
                IN  /\ ~\E a, b \in others : a # b /\ OnSegment(p, a, b)
                    /\ ~\E a, b, c \in others :
                          Cross(a, b, c) # 0 /\ InTriangle(p, a, b, c)}
    IN  [type |-> IF Cardinality(vertices) = 1 THEN "Point"
                  ELSE IF Cardinality(vertices) = 2 THEN "LineString"
                  ELSE "Polygon",
         coordinates |-> vertices]

\* the labels in the order groupby('label') yields them: ascending
RECURSIVE SortedLabels(_)
SortedLabels(ls) ==
    IF ls = {} THEN <<>>
    ELSE LET least == CHOOSE l \in ls : \A k \in ls : l <= k
         IN  <<least>> \o SortedLabels(ls \ {least})

Occurrences(gdf, t) == Cardinality({i \in 1..Len(gdf) : gdf[i].datetime = t})

\* the modes of the datetime column
Modes(gdf) ==
    {t \in {gdf[i].datetime : i \in 1..Len(gdf)} :
        \A i \in 1..Len(gdf) : Occurrences(gdf, gdf[i].datetime) <= Occurrences(gdf, t)}

\* gdf['datetime'].mode()[0], line 150: mode() is sorted, [0] is the earliest
FirstMode(gdf) == CHOOSE t \in Modes(gdf) : \A u \in Modes(gdf) : t <= u

\* lines 138-147: one feature per group of the frame, whatever its label
Features(gdf) ==
    LET ls == SortedLabels(Labels(gdf))
    IN  [k \in 1..Len(ls) |->
            [id |-> ls[k],
             geometry |-> convex_hull({<<gdf[i].longitude, gdf[i].latitude>> :
                              i \in {j \in 1..Len(gdf) : gdf[j].label = ls[k]}})]]

\* the whole function, on a frame that is not empty (on an empty frame
\* mode() is empty and mode()[0] raises)
create_cluster_polygons(gdf) ==
    [acq_date |-> FirstMode(gdf), polygon_geojson |-> Features(gdf)]

----------------------------------------------------------------------------
(* upload_to_bigquery, lines 154-189 *)

\* strftime('%Y-%m-%dT%H:%M:%SZ') of a timestamp in minutes
strftime(t) ==
    [date |-> t \div MinutesPerDay,
     hour |-> (t % MinutesPerDay) \div 60,
     minute |-> t % 60,
     second |-> 0]

\* what datetime.utcnow() can return: two instants after the data's last day
UtcNow == {3 * MinutesPerDay, 3 * MinutesPerDay + 1}

\* the row of lines 176-180, given what utcnow() returns
upload_row(acq_date, polygon_geojson, now) ==
    [prediction_date |-> strftime(acq_date),
     geojson_mask |-> polygon_geojson,
     datetime_added |-> strftime(now)]

----------------------------------------------------------------------------
(* The inputs of an invocation *)

\* where a detection can lie: two places within eps of each other, one far off
Locations == {<<0, 0>>, <<1, 1>>, <<3, 1>>}

Confidences == {"h", "n"}

\* acq_time values as read from the CSV: 00:05 and 12:30
AcqTimes == {5, 1230}

\* get_firms_data asks for days_of_data = 2: the rows are of two days
DaysOfData == 2

\* the rows of a FIRMS CSV, with the columns of line 41: at one of two places
\* far apart, early on the first day or late on the last
FirmsRows ==
    {[longitude |-> l[1], latitude |-> l[2], confidence |-> c,
      acq_date |-> a[1], acq_time |-> a[2]] :
        l \in {<<0, 0>>, <<3, 1>>}, c \in Confidences,
        a \in {<<1, 5>>, <<DaysOfData, 1230>>}}

\* the request dictionaries: any key may be missing
Requests ==
    {[api_key |-> "KEY", products |-> p, min_cluster_size |-> m,
      required_high_confidence |-> r] :
        p \in {SubSeq(DefaultProducts, 1, 1), SubSeq(DefaultProducts, 1, 2)},
        m \in 1..2, r \in 1..2}
    \cup {[api_key |-> "KEY"],
          [api_key |-> "KEY", products |-> <<>>],
          [products |-> SubSeq(DefaultProducts, 1, 1), min_cluster_size |-> 1],
          [api_key |-> "KEY", bbox |-> "171,16", min_cluster_size |-> 1]}

\* request_json.get(key, default)
Get(req, key, default) == IF key \in DOMAIN req THEN req[key] ELSE default

\* lines 198-202
api_key == Get(request, "api_key", "None")
bbox == Get(request, "bbox", DefaultBbox)
products == Get(request, "products", DefaultProducts)
min_cluster_size == Get(request, "min_cluster_size", DefaultMinClusterSize)
required_high_confidence ==
    Get(request, "required_high_confidence", DefaultRequiredHighConfidence)

\* lines 37-47 on a parsed CSV: the kept columns, geometry, product
get_firms_data(rows, product) ==
    [i \in 1..Len(rows) |->
        [latitude |-> rows[i].latitude, longitude |-> rows[i].longitude,
         confidence |-> rows[i].confidence,
         geometry |-> <<rows[i].longitude, rows[i].latitude>>,
         acq_date |-> rows[i].acq_date, acq_time |-> rows[i].acq_time,
         product |-> product]]

Called(f) == \E i \in 1..Len(calls) : calls[i][1] = f

----------------------------------------------------------------------------
(* FIRMS_GEOJSON_UPDATE, lines 191-219, one step per call it makes *)

NoResult == [acq_date |-> 0, polygon_geojson |-> <<>>]

NoParams == [min_samples |-> 0, min_cluster_size |-> 0, required |-> 0]

RecencyOff == batch = <<>> /\ days = 0 /\ recent = <<>> /\ rstep = "off"

CorroborationOff ==
    /\ points = <<>> /\ params = NoParams /\ clustered = <<>> /\ kept = <<>>
    /\ polygons = NoResult /\ cstep = "off"

PipelineAt(p) ==
    /\ pc = p /\ request = <<>> /\ gdfs = <<>> /\ combined_gdf = <<>>
    /\ filtered_combined_clusters = <<>> /\ result = NoResult
    /\ sink = <<>> /\ error = "none" /\ calls = <<>>

Init == PipelineAt("idle") /\ RecencyOff /\ CorroborationOff

\* lines 193-202: the request arrives; nothing in it is checked
Invoke ==
    /\ pc = "idle"
    /\ \E req \in Requests : request' = req
    /\ pc' = "fetch"
    /\ UNCHANGED <<gdfs, combined_gdf, filtered_combined_clusters, result, sink,
                   error, calls>>
    /\ UNCHANGED <<recVars, corVars>>

\* line 205, one product: requests.get succeeds and the body is the CSV.
\* Neither api_key nor bbox is looked at: they only go into the URL.
FetchCsv ==
    /\ pc = "fetch" /\ Len(gdfs) < Len(products)
    /\ LET product == products[Len(gdfs) + 1]
       IN  /\ \E n \in 0..(MaxPoints - SumLen(gdfs)) :
                \E rows \in [1..n -> FirmsRows] :
                    gdfs' = Append(gdfs, get_firms_data(rows, product))
           /\ calls' = Append(calls, <<"get_firms_data", product, "csv">>)
    /\ UNCHANGED <<pc, request, combined_gdf, filtered_combined_clusters, result,
                   sink, error>>
    /\ UNCHANGED <<recVars, corVars>>

\* FetchError as it would be if the handler of line 30 left an empty frame
\* behind: the loop goes on
FetchErrorAsEmpty ==
    /\ pc = "fetch" /\ Len(gdfs) < Len(products)
    /\ calls' = Append(calls, <<"get_firms_data", products[Len(gdfs) + 1],
                                "RequestException">>)
    /\ gdfs' = Append(gdfs, <<>>)
    /\ UNCHANGED <<pc, error, request, combined_gdf, filtered_combined_clusters,
                   result, sink>>
    /\ UNCHANGED <<recVars, corVars>>

\* line 205, one product: requests.get or raise_for_status raises. The handler
\* of line 30 prints and falls through to line 38, where df is unbound: the
\* call raises UnboundLocalError and the comprehension ends.
FetchError ==
    /\ pc = "fetch" /\ Len(gdfs) < Len(products)
    /\ calls' = Append(calls, <<"get_firms_data", products[Len(gdfs) + 1],
                                "RequestException">>)
    /\ pc' = "failed" /\ error' = "get_firms_data"
    /\ UNCHANGED <<request, gdfs, combined_gdf, filtered_combined_clusters, result,
                   sink>>
    /\ UNCHANGED <<recVars, corVars>>

\* line 206: every batch through filter_by_datetime, with the default days
Recency ==
    /\ pc = "fetch" /\ Len(gdfs) = Len(products)
    /\ gdfs' = [i \in 1..Len(gdfs) |-> filter_by_datetime(gdfs[i], DefaultDays)]
    /\ calls' = calls \o [i \in 1..Len(gdfs) |-> <<"filter_by_datetime", products[i], "">>]
    /\ pc' = "concat"
    /\ UNCHANGED <<request, combined_gdf, filtered_combined_clusters, result, sink,
                   error>>
    /\ UNCHANGED <<recVars, corVars>>

\* line 208: pd.concat raises on an empty list
Combine ==
    /\ pc = "concat"
    /\ IF gdfs = <<>>
       THEN /\ pc' = "failed" /\ error' = "concat"
            /\ UNCHANGED combined_gdf
       ELSE /\ combined_gdf' = Concat(gdfs)
            /\ pc' = "cluster"
            /\ UNCHANGED error
    /\ UNCHANGED <<request, gdfs, filtered_combined_clusters, result, sink, calls>>
    /\ UNCHANGED <<recVars, corVars>>

\* line 210: DBSCAN.fit raises on an array of no samples
Cluster ==
    /\ pc = "cluster"
    /\ calls' = Append(calls, <<"cluster_fires", "", "">>)
    /\ IF combined_gdf = <<>>
       THEN /\ pc' = "failed" /\ error' = "cluster_fires"
            /\ UNCHANGED combined_gdf
       ELSE /\ combined_gdf' = cluster_fires(combined_gdf, EpsSq, DefaultMinSamples)
            /\ pc' = "corroborate"
            /\ UNCHANGED error
    /\ UNCHANGED <<request, gdfs, filtered_combined_clusters, result, sink>>
    /\ UNCHANGED <<recVars, corVars>>

\* line 212
Corroborate ==
    /\ pc = "corroborate"
    /\ calls' = Append(calls, <<"filter_clusters_with_product_confidence", "", "">>)
    /\ filtered_combined_clusters' =
           filter_clusters_with_product_confidence(
               combined_gdf, min_cluster_size, required_high_confidence)
    /\ pc' = "polygons"
    /\ UNCHANGED <<request, gdfs, combined_gdf, result, sink, error>>
    /\ UNCHANGED <<recVars, corVars>>

\* line 214: on a frame with no row, mode()[0] of line 150 raises
Synthesize ==
    /\ pc = "polygons"
    /\ calls' = Append(calls, <<"create_cluster_polygons", "", "">>)
    /\ IF filtered_combined_clusters = <<>>
       THEN /\ pc' = "failed" /\ error' = "create_cluster_polygons"
            /\ UNCHANGED result
       ELSE /\ result' = create_cluster_polygons(filtered_combined_clusters)
            /\ pc' = "upload"
            /\ UNCHANGED error
    /\ UNCHANGED <<request, gdfs, combined_gdf, filtered_combined_clusters, sink>>
    /\ UNCHANGED <<recVars, corVars>>

\* lines 217-219: one row is handed to insert_rows_json, which returns (with
\* or without a list of errors, lines 186-189), then the return of line 219
Upload ==
    /\ pc = "upload"
    /\ calls' = Append(calls, <<"upload_to_bigquery", "", "">>)
    /\ \E now \in UtcNow :
          sink' = Append(sink, upload_row(result.acq_date, result.polygon_geojson, now))
    /\ pc' = "done"
    /\ UNCHANGED <<request, gdfs, combined_gdf, filtered_combined_clusters, result,
                   error>>
    /\ UNCHANGED <<recVars, corVars>>

\* line 217, when bigquery.Client() or get_table (lines 162-170) raises: the
\* exception leaves the invocation before insert_rows_json is reached
UploadError ==
    /\ pc = "upload"
    /\ calls' = Append(calls, <<"upload_to_bigquery", "", "">>)
    /\ pc' = "failed" /\ error' = "upload_to_bigquery"
    /\ UNCHANGED <<request, gdfs, combined_gdf, filtered_combined_clusters, result,
                   sink>>
    /\ UNCHANGED <<recVars, corVars>>

\* line 217, when insert_rows_json (line 183) raises: the row of lines 176-180
\* has been handed to the sink's client, and the exception leaves the
\* invocation before the return of line 219
UploadInsertError ==
    /\ pc = "upload"
    /\ calls' = Append(calls, <<"upload_to_bigquery", "", "">>)
    /\ \E now \in UtcNow :
          sink' = Append(sink, upload_row(result.acq_date, result.polygon_geojson, now))
    /\ pc' = "failed" /\ error' = "upload_to_bigquery"
    /\ UNCHANGED <<request, gdfs, combined_gdf, filtered_combined_clusters, result>>
    /\ UNCHANGED <<recVars, corVars>>

Next ==
    \/ Invoke
    \/ FetchCsv
    \/ FetchError
    \/ Recency
    \/ Combine
    \/ Cluster
    \/ Corroborate
    \/ Synthesize
    \/ Upload
    \/ UploadError
    \/ UploadInsertError

Spec == Init /\ [][Next]_vars

----------------------------------------------------------------------------
(* filter_by_datetime on its own *)

RecencyRows ==
    {[longitude |-> 0, latitude |-> 0, confidence |-> c,
      acq_date |-> d, acq_time |-> t] :
        c \in Confidences, d \in 1..MaxDay, t \in AcqTimes}

InitRecency ==
    /\ PipelineAt("off") /\ CorroborationOff
    /\ batch \in {get_firms_data(rows, DefaultProducts[1]) :
                     rows \in SeqsUpTo(RecencyRows, MaxBatch)}
    /\ days \in 0..MaxLookback
    /\ recent = <<>>
    /\ rstep = "ready"

ApplyRecency ==
    /\ rstep = "ready"
    /\ recent' = filter_by_datetime(batch, days)
    /\ batch' = filter_by_datetime_argument(batch)
    /\ rstep' = "done"
    /\ UNCHANGED days
    /\ UNCHANGED <<pipeVars, corVars>>

NextRecency == ApplyRecency

SpecRecency == InitRecency /\ [][NextRecency]_vars

----------------------------------------------------------------------------
(* cluster_fires, filter_clusters_with_product_confidence and
   create_cluster_polygons on their own, with any min_samples and thresholds *)

ClusterRows ==
    {[longitude |-> l[1], latitude |-> l[2], confidence |-> cp[1],
      product |-> cp[2], datetime |-> MinutesPerDay + 5] :
        l \in Locations,
        cp \in {<<"h", DefaultProducts[1]>>, <<"h", DefaultProducts[2]>>,
                <<"n", DefaultProducts[1]>>}}

InitCorroboration ==
    /\ PipelineAt("off") /\ RecencyOff
    /\ points \in SeqsUpTo(ClusterRows, MaxClusterInput) \ {<<>>}
    /\ params = NoParams
    /\ clustered = <<>> /\ kept = <<>> /\ polygons = NoResult
    /\ cstep = "ready"

ApplyCluster ==
    /\ cstep = "ready"
    /\ \E ms \in 1..2 :
          /\ points' = cluster_fires(points, EpsSq, ms)
          /\ clustered' = points'
          /\ params' = [params EXCEPT !.min_samples = ms]
    /\ cstep' = "clustered"
    /\ UNCHANGED <<kept, polygons>>
    /\ UNCHANGED <<pipeVars, recVars>>

ApplyCorroboration ==
    /\ cstep = "clustered"
    /\ \E m \in 0..MaxThreshold, r \in 0..MaxThreshold :
          /\ kept' = filter_clusters_with_product_confidence(clustered, m, r)
          /\ params' = [params EXCEPT !.min_cluster_size = m, !.required = r]
    /\ cstep' = "corroborated"
    /\ UNCHANGED <<points, clustered, polygons>>
    /\ UNCHANGED <<pipeVars, recVars>>

ApplySynthesis ==
    /\ cstep = "corroborated"
    /\ kept # <<>>
    /\ polygons' = create_cluster_polygons(kept)
    /\ cstep' = "synthesized"
    /\ UNCHANGED <<points, params, clustered, kept>>
    /\ UNCHANGED <<pipeVars, recVars>>

NextCorroboration ==
    \/ ApplyCluster
    \/ ApplyCorroboration
    \/ ApplySynthesis

SpecCorroboration == InitCorroboration /\ [][NextCorroboration]_vars

----------------------------------------------------------------------------
(* Properties of the corroboration filter and the polygon synthesizer,
   under SpecCorroboration *)

Corroborated == cstep \in {"corroborated", "synthesized"}

SizeOfLabel(l) == Cardinality({i \in 1..Len(clustered) : clustered[i].label = l})

HighProductsOfLabel(l) ==
    {clustered[i].product :
        i \in {j \in 1..Len(clustered) :
                  clustered[j].label = l /\ clustered[j].confidence = "h"}}

MeetsSize(l) == SizeOfLabel(l) >= params.min_cluster_size

\* a label with no high-confidence point is in no group of the count, so it
\* fails whatever the threshold
MeetsCorroboration(l) ==
    /\ HighProductsOfLabel(l) # {}
    /\ Cardinality(HighProductsOfLabel(l)) >= params.required

\* C1: the output of filter_clusters_with_product_confidence is exactly the
\* input rows, in order, whose label has at least min_cluster_size rows and
\* has high-confidence rows of at least required_high_confidence_per_product
\* distinct products; a label failing either test (or with no high-confidence
\* row) keeps no row, a label passing both keeps all of its rows.
Thm_C1 ==
    Corroborated =>
        kept = SelectSeq(clustered,
                         LAMBDA r : MeetsSize(r.label) /\ MeetsCorroboration(r.label))

\* a cluster that is large enough but has no corroboration is dropped beside
\* a cluster of several rows that passes both tests and is kept whole
Wit_C1 ==
    /\ cstep = "corroborated"
    /\ \E l1, l2 \in Labels(clustered) :
          /\ MeetsSize(l1) /\ ~MeetsCorroboration(l1)
          /\ MeetsSize(l2) /\ MeetsCorroboration(l2) /\ SizeOfLabel(l2) >= 2
          /\ l1 \notin Labels(kept) /\ l2 \in Labels(kept)

\* C8: raising min_cluster_size and required_high_confidence_per_product
\* never adds a surviving label: the labels surviving any thresholds at least
\* as large are among those surviving the thresholds applied.
Thm_C8 ==
    cstep = "corroborated" =>
        \A m2 \in params.min_cluster_size..(MaxThreshold + 1),
           r2 \in params.required..(MaxThreshold + 1) :
            Labels(filter_clusters_with_product_confidence(clustered, m2, r2))
                \subseteq Labels(kept)

\* larger thresholds that drop some surviving label and keep another
Wit_C8 ==
    /\ cstep = "corroborated"
    /\ \E m2 \in params.min_cluster_size..(MaxThreshold + 1),
          r2 \in params.required..(MaxThreshold + 1) :
          LET fewer == Labels(filter_clusters_with_product_confidence(
                                  clustered, m2, r2))
          IN  fewer # {} /\ fewer # Labels(kept)

\* C3: create_cluster_polygons never makes a polygon for the noise label -1,
\* even when the corroboration filter's result still holds rows labelled -1.
CE_C3 ==
    cstep = "synthesized" =>
        \A k \in 1..Len(polygons.polygon_geojson) :
            polygons.polygon_geojson[k].id # NoiseLabel

\* C10: every cluster in the filter's output has, for each product present
\* in the data, at least required_high_confidence_per_product high-confidence
\* rows of that product (the function's docstring).
CE_C10 ==
    Corroborated =>
        \A l \in Labels(kept) :
            \A p \in {clustered[i].product : i \in 1..Len(clustered)} :
                Cardinality({i \in 1..Len(clustered) :
                                /\ clustered[i].label = l
                                /\ clustered[i].product = p
                                /\ clustered[i].confidence = "h"})
                    >= params.required

----------------------------------------------------------------------------
(* Properties of filter_by_datetime, under SpecRecency *)

\* the acquisition instant of a raw row, in minutes, from its date and HHMM
AcquiredAt(row) ==
    row.acq_date * MinutesPerDay + (row.acq_time \div 100) * 60 + (row.acq_time % 100)

RawKey(row) ==
    <<row.longitude, row.latitude, row.confidence, row.product, AcquiredAt(row)>>

OutKey(row) ==
    <<row.longitude, row.latitude, row.confidence, row.product, row.datetime>>

LatestOf(in) ==
    CHOOSE t \in {AcquiredAt(in[i]) : i \in 1..Len(in)} :
        \A i \in 1..Len(in) : AcquiredAt(in[i]) <= t

WindowStartOf(in, d) == LatestOf(in) - d * MinutesPerDay

\* out is exactly the part of the raw batch in that lies in the window
RetainsWindow(in, d, out) ==
    /\ \A i \in 1..Len(in) :
          Cardinality({j \in 1..Len(out) : OutKey(out[j]) = RawKey(in[i])})
            = IF AcquiredAt(in[i]) >= WindowStartOf(in, d)
              THEN Cardinality({j \in 1..Len(in) : RawKey(in[j]) = RawKey(in[i])})
              ELSE 0
    /\ \A j \in 1..Len(out) :
          /\ out[j].datetime >= WindowStartOf(in, d)
          /\ \E i \in 1..Len(in) : RawKey(in[i]) = OutKey(out[j])
    /\ \E j \in 1..Len(out) : out[j].datetime = LatestOf(in)

\* C2: for a non-empty batch and lookback D, the detections the call retains
\* are exactly those acquired at or after max(acquired_at) - D: each detection
\* of the window is retained as often as it occurs, none outside it is
\* retained, and the latest detection is retained.
Thm_C2 ==
    [][(rstep = "ready" /\ rstep' = "done" /\ batch # <<>>)
          => RetainsWindow(batch, days, recent')]_vars

\* after the call (the batch now carries its datetime column): a detection
\* before the window was dropped, and one exactly at the window's start was
\* retained
Wit_C2 ==
    /\ rstep = "done" /\ days >= 1 /\ batch # <<>>
    /\ LET start == MaxDatetime(batch) - days * MinutesPerDay
       IN  /\ \E i \in 1..Len(batch) : batch[i].datetime < start
           /\ \E j \in 1..Len(recent) : recent[j].datetime = start
    /\ Len(recent) < Len(batch)

----------------------------------------------------------------------------
(* Properties of an invocation, under Spec *)

\* a configuration the spec calls valid: a key, and a bounding box that is
\* "world" or four numbers
WellFormedBboxes == {"world", "-171,16,-66,74"}
ValidConfiguration(req) ==
    /\ "api_key" \in DOMAIN req
    /\ Get(req, "bbox", DefaultBbox) \in WellFormedBboxes

FetchFailed ==
    \E i \in 1..Len(calls) :
        calls[i][1] = "get_firms_data" /\ calls[i][3] = "RequestException"

FetchCalls == Cardinality({i \in 1..Len(calls) : calls[i][1] = "get_firms_data"})

\* C4: once the fetch of a product has failed, the invocation has aborted with
\* a failure: the failed product has no frame (it is not an empty batch), no
\* filtering, clustering, corroboration or synthesis has run, and
\* upload_to_bigquery is not called.
Thm_C4 ==
    FetchFailed =>
        /\ pc = "failed" /\ error = "get_firms_data"
        /\ Len(gdfs) < FetchCalls
        /\ ~Called("filter_by_datetime")
        /\ ~Called("cluster_fires")
        /\ ~Called("filter_clusters_with_product_confidence")
        /\ ~Called("create_cluster_polygons")
        /\ ~Called("upload_to_bigquery")
        /\ sink = <<>>

\* the second product's fetch fails after the first product returned data,
\* under a valid configuration
Wit_C4 ==
    /\ FetchFailed /\ ValidConfiguration(request)
    /\ Len(gdfs) = 1 /\ gdfs[1] # <<>>
    /\ pc = "failed"

\* C5: if a product's batch has no detection after a successful fetch, the
\* invocation aborts and nothing from the other products reaches the sink.
CE_C5 ==
    (\E i \in 1..Len(gdfs) : gdfs[i] = <<>>) => sink = <<>>

SurvivingLabels == Labels(filtered_combined_clusters)

MembersOf(l) == SelectSeq(filtered_combined_clusters, LAMBDA r : r.label = l)

\* C6: when k >= 1 clusters survive, exactly k records are handed to the
\* sink, one per surviving label, each with the mode of the acquisition
\* timestamps of that cluster's own members.
CE_C6 ==
    pc = "done" =>
        /\ Len(sink) = Cardinality(SurvivingLabels)
        /\ \A l \in SurvivingLabels :
              \E i \in 1..Len(sink) :
                  sink[i].prediction_date = strftime(FirstMode(MembersOf(l)))

\* C7: when no cluster meets both thresholds, the invocation completes with
\* an empty result set: it does not fail.
CE_C7 ==
    (Called("filter_clusters_with_product_confidence")
        /\ filtered_combined_clusters = <<>>) => pc # "failed"

\* C9: with an invalid configuration (a missing api_key, a malformed bounding
\* box) no call of get_firms_data ever occurs.
CE_C9 ==
    (pc # "idle" /\ ~ValidConfiguration(request)) => ~Called("get_firms_data")

====
